---- MODULE Spec2Model ----
(***************************************************************************)
(* Model of the statistics core of the expense tracker (src/ai_advanced.py)*)
(* A ledger (pandas DataFrame) is a sequence of rows [Date, Category,      *)
(* Amount]; a date is [year, month, day].  Real numbers are exact          *)
(* rationals [n, d] in lowest terms (the code computes in binary floating  *)
(* point; the model does not reproduce its rounding error).  An optional   *)
(* value (Python None) is the empty sequence, a present value x is <<x>>.  *)
(* The formatted alert text is modelled by the branch that produced it.    *)
(***************************************************************************)
EXTENDS Integers, Sequences, FiniteSets, TLC

VARIABLES
    df,              \* the ledger snapshot handed to the core
    today,           \* the wall clock, datetime.now()
    monthly_budget,  \* the budget argument
    fitted,          \* what the regressor fitted on the ledger predicts
    op,              \* the operation called last
    result,          \* what it returned
    called_at,       \* history: the wall clock at that call
    repeated,        \* history: the call before it was of the same operation
    csv_file,        \* the content of expenses.csv
    session,         \* st.session_state of each browser session
    users_db,        \* the content of users.db
    pending,         \* the ledger a session has loaded and is about to rewrite
    saved            \* history: the expenses whose save returned True

\* What the core neither reads nor writes.
app_vars == <<csv_file, session, users_db, pending, saved>>

\* What the stores and the sessions neither read nor write.
core_vars == <<today, monthly_budget, fitted, called_at, repeated>>

vars == <<df, today, monthly_budget, fitted, op, result, called_at, repeated,
          csv_file, session, users_db, pending, saved>>

(***************************************************************************)
(* Bounds of the model.                                                    *)
(***************************************************************************)
MaxLen == 3

MaxRows == 10

(***************************************************************************)
(* Rational arithmetic.                                                    *)
(***************************************************************************)
Abs(x) == IF x < 0 THEN -x ELSE x

RECURSIVE GCD(_, _)
GCD(a, b) == IF b = 0 THEN a ELSE GCD(b, a % b)

Rat(num, den) ==
    LET g == GCD(Abs(num), Abs(den))
        s == IF den < 0 THEN -1 ELSE 1
    IN  [n |-> (s * num) \div g, d |-> (s * den) \div g]

Zero == [n |-> 0, d |-> 1]

RInt(i) == [n |-> i, d |-> 1]

RAdd(a, b) == Rat(a.n * b.d + b.n * a.d, a.d * b.d)

RSub(a, b) == Rat(a.n * b.d - b.n * a.d, a.d * b.d)

RMul(a, b) == Rat(a.n * b.n, a.d * b.d)

RDiv(a, b) == Rat(a.n * b.d, a.d * b.n)

RLt(a, b) == a.n * b.d < b.n * a.d

RLe(a, b) == a.n * b.d <= b.n * a.d

RMax(a, b) == IF RLt(a, b) THEN b ELSE a

(***************************************************************************)
(* Optional values.                                                        *)
(***************************************************************************)
None == <<>>

Some(x) == <<x>>

(***************************************************************************)
(* DataFrame helpers.                                                      *)
(***************************************************************************)
NoneDF == [isNone |-> TRUE, rows |-> <<>>]

Frame(rows) == [isNone |-> FALSE, rows |-> rows]

\* df is None or df.empty
IsNoneOrEmpty(frame) == frame.isNone \/ frame.rows = <<>>

(***************************************************************************)
(* Malformed records and the exceptions they raise.  A date that cannot be *)
(* parsed is the cell BadDate; a row whose amount is not a number carries  *)
(* the text in AmountText, and its whole column is then text, as read_csv  *)
(* leaves it.                                                              *)
(***************************************************************************)
BadDate == [year |-> 0, month |-> 0, day |-> 0]

parseable(date) == date # BadDate

is_numeric(row) == "AmountText" \notin DOMAIN row

NoException == "none"

\* pd.to_datetime(df_copy["Date"]) with errors='raise'
to_datetime_raised(rows) ==
    IF \E i \in DOMAIN rows : ~parseable(rows[i].Date)
    THEN "ValueError" ELSE NoException

\* arithmetic on a column of text
arithmetic_raised(rows) ==
    IF \E i \in DOMAIN rows : ~is_numeric(rows[i])
    THEN "TypeError" ELSE NoException

\* The first of two steps that raises.
first_raised(e1, e2) == IF e1 # NoException THEN e1 ELSE e2

\* Mutant: except ValueError.
caught_value_error_only(exception) == exception = "ValueError"

\* except Exception
caught(exception) == TRUE

RECURSIVE AmountSum(_)
AmountSum(rows) ==
    IF rows = <<>> THEN 0 ELSE Head(rows).Amount + AmountSum(Tail(rows))

(***************************************************************************)
(* budget_alert                                                            *)
(***************************************************************************)
days_in_month == 30

\* Mutant: the filter compares the month number only.
InCurrentMonth_month_only(row, now) == row.Date.month = now.month

\* Mutant: no filter at all, the whole ledger is summed.
InCurrentMonth_all(row, now) == TRUE

InCurrentMonth(row, now) ==
    row.Date.month = now.month /\ row.Date.year = now.year

current_month_rows(rows, now) ==
    SelectSeq(rows, LAMBDA row : InCurrentMonth(row, now))

\* Mutant: the ratio is not scaled to a percentage.
budget_percentage_ratio(total, budget) ==
    IF budget > 0 THEN Rat(total, budget) ELSE Zero

budget_percentage(total, budget) ==
    IF budget > 0 THEN RMul(Rat(total, budget), RInt(100)) ELSE Zero

projected_total_of(total, now) ==
    LET daily_avg == IF now.day > 0 THEN Rat(total, now.day) ELSE Zero
    IN  RMul(daily_avg, RInt(days_in_month))

\* Mutant: the usage thresholds are tested before the projection.
budget_classify_usage_first(total, projected_total, percentage, budget) ==
    IF total > budget THEN "BUDGET EXCEEDED"
    ELSE IF RLt(RInt(80), percentage) THEN "budget used"
    ELSE IF RLt(RInt(budget), projected_total) THEN "Projected to exceed budget"
    ELSE IF RLt(RInt(50), percentage) THEN "budget used - On track"
    ELSE "budget used - Excellent"

budget_classify(total, projected_total, percentage, budget) ==
    IF total > budget THEN "BUDGET EXCEEDED"
    ELSE IF RLt(RInt(budget), projected_total) THEN "Projected to exceed budget"
    ELSE IF RLt(RInt(80), percentage) THEN "budget used"
    ELSE IF RLt(RInt(50), percentage) THEN "budget used - On track"
    ELSE "budget used - Excellent"

\* What the try block raises: the date conversion at line 101, else the
\* division of a text total at lines 111 and 116 (the sum of no row is 0).
budget_alert_raised(frame, now) ==
    IF IsNoneOrEmpty(frame) THEN NoException
    ELSE first_raised(to_datetime_raised(frame.rows),
                      IF current_month_rows(frame.rows, now) = <<>> THEN NoException
                      ELSE arithmetic_raised(frame.rows))

budget_alert(frame, budget, now) ==
    IF IsNoneOrEmpty(frame)
    THEN [alert |-> "No data available", percentage |-> Zero]
    ELSE IF budget_alert_raised(frame, now) # NoException
    THEN [alert |-> "Alert unavailable", percentage |-> Zero]
    ELSE LET total == AmountSum(current_month_rows(frame.rows, now))
             percentage == budget_percentage(total, budget)
             projected_total == projected_total_of(total, now)
         IN  [alert |-> budget_classify(total, projected_total, percentage, budget),
              percentage |-> percentage]

(***************************************************************************)
(* monthly_forecast                                                        *)
(* The regressors of scikit-learn are not code of this repository: what    *)
(* model.predict returns for the future row (raw_prediction) and the       *)
(* standard deviation of the training residuals (std_error >= 0) are       *)
(* inputs of the operator, chosen by the caller.                           *)
(***************************************************************************)
\* Resolution of a square root: np.sqrt is taken to 1 / SqrtScale.
SqrtScale == 100

NaN == [n |-> 0, d |-> 0]

RECURSIVE Bisect(_, _, _)
Bisect(x, lo, hi) ==
    IF lo >= hi THEN lo
    ELSE LET mid == (lo + hi + 1) \div 2
         IN  IF mid * mid <= x THEN Bisect(x, mid, hi) ELSE Bisect(x, lo, mid - 1)

\* floor of the square root of a natural number
ISqrt(x) == Bisect(x, 0, IF x < 46340 THEN x ELSE 46340)

\* np.sqrt(nan) is nan
RSqrt(r) ==
    IF r.d = 0 THEN r
    ELSE Rat(ISqrt((r.n * SqrtScale * SqrtScale) \div r.d), SqrtScale)

RECURSIVE SquareSum(_)
SquareSum(rows) ==
    IF rows = <<>> THEN 0
    ELSE Head(rows).Amount * Head(rows).Amount + SquareSum(Tail(rows))

\* pandas 'std' of a group: the sample standard deviation (ddof = 1), NaN for
\* a group of one row.
SampleStd(rows) ==
    LET k == Len(rows)
        sum == AmountSum(rows)
    IN  IF k < 2 THEN NaN
        ELSE RSqrt(Rat(k * SquareSum(rows) - sum * sum, k * (k - 1)))

fillna(x, value) == IF x = NaN THEN value ELSE x

\* Mutant: the period keeps the month number and drops the year.
to_period_M_no_year(date) == [year |-> 0, month |-> date.month]

\* data["Date"].dt.to_period("M")
to_period_M(date) == [year |-> date.year, month |-> date.month]

PeriodOrdinal(period) == period.year * 12 + period.month

RECURSIVE SortedPeriods(_)
SortedPeriods(S) ==
    IF S = {} THEN <<>>
    ELSE LET first == CHOOSE x \in S : \A y \in S : PeriodOrdinal(x) <= PeriodOrdinal(y)
         IN  <<first>> \o SortedPeriods(S \ {first})

\* groupby("Month").agg({'Amount': ['sum', 'count', 'mean', 'std']}), the
\* groups in ascending period order, then Std.fillna(0).
aggregate_monthly(rows) ==
    LET keys == SortedPeriods({to_period_M(rows[i].Date) : i \in DOMAIN rows})
        group(key) == SelectSeq(rows, LAMBDA row : to_period_M(row.Date) = key)
    IN  [i \in DOMAIN keys |->
            LET g == group(keys[i])
            IN  [Month |-> keys[i],
                 Total |-> AmountSum(g),
                 Count |-> Len(g),
                 Mean  |-> Rat(AmountSum(g), Len(g)),
                 Std   |-> fillna(SampleStd(g), Zero)]]

\* Mutant: a single month is enough to fit.
too_few_months_lt_1(monthly) == Len(monthly) < 1

too_few_months(monthly) == Len(monthly) < 2

\* Mutant: the tree ensemble is chosen from two months on.
select_model_ge_2(monthly) ==
    IF Len(monthly) >= 2 THEN "RandomForestRegressor" ELSE "Ridge"

select_model(monthly) ==
    IF Len(monthly) >= 3 THEN "RandomForestRegressor" ELSE "Ridge"

\* monthly["Index"], monthly["Month_Num"]
with_features(monthly) ==
    [i \in DOMAIN monthly |->
        [Month |-> monthly[i].Month, Total |-> monthly[i].Total,
         Count |-> monthly[i].Count, Mean |-> monthly[i].Mean,
         Std |-> monthly[i].Std, Index |-> i - 1,
         Month_Num |-> monthly[i].Month.month]]

RECURSIVE RSum(_)
RSum(xs) == IF xs = <<>> THEN Zero ELSE RAdd(Head(xs), RSum(Tail(xs)))

\* Series.mean() of a column of rationals
column_mean(xs) == RDiv(RSum(xs), RInt(Len(xs)))

future_features(monthly, now) ==
    LET next_month == now.month
    IN  [Index |-> Len(monthly),
         Count |-> column_mean([i \in DOMAIN monthly |-> RInt(monthly[i].Count)]),
         Mean  |-> column_mean([i \in DOMAIN monthly |-> monthly[i].Mean]),
         Std   |-> column_mean([i \in DOMAIN monthly |-> monthly[i].Std]),
         Month_Num |-> next_month]

\* Mutant: no clamp.
clamp_zero_identity(x) == x

\* max(0, x)
clamp_zero(x) == RMax(Zero, x)

\* 1.96
z95 == Rat(196, 100)

\* round(x, 2), ties to even
round2(x) ==
    LET num == x.n * 100
        q == num \div x.d
        r2 == 2 * (num % x.d)
        k == IF r2 > x.d \/ (r2 = x.d /\ q % 2 = 1) THEN q + 1 ELSE q
    IN  Rat(k, 100)

\* What the try block raises: the date conversion at line 26, else the
\* aggregation of a text column at lines 30-34.
monthly_forecast_raised(frame) ==
    IF IsNoneOrEmpty(frame) THEN NoException
    ELSE first_raised(to_datetime_raised(frame.rows), arithmetic_raised(frame.rows))

monthly_forecast(frame, now, raw_prediction, std_error) ==
    IF IsNoneOrEmpty(frame) \/ monthly_forecast_raised(frame) # NoException
    THEN [monthly |-> None, prediction |-> None, confidence_interval |-> None,
          model |-> None, future_features |-> None]
    ELSE LET monthly == aggregate_monthly(frame.rows)
         IN  IF too_few_months(monthly)
             THEN [monthly |-> Some(monthly), prediction |-> None,
                   confidence_interval |-> None, model |-> None,
                   future_features |-> None]
             ELSE LET confidence_interval ==
                          <<clamp_zero(RSub(raw_prediction, RMul(z95, std_error))),
                            RAdd(raw_prediction, RMul(z95, std_error))>>
                      prediction == clamp_zero(raw_prediction)
                  IN  [monthly |-> Some(with_features(monthly)),
                       prediction |-> Some(round2(prediction)),
                       confidence_interval |-> Some(confidence_interval),
                       model |-> Some(select_model(monthly)),
                       future_features |-> Some(future_features(monthly, now))]

(***************************************************************************)
(* detect_spending_anomalies                                               *)
(* z > threshold is decided exactly, on the squares; the z_score attached  *)
(* to a returned row is the root at the resolution 1 / SqrtScale.          *)
(***************************************************************************)
min_transactions == 10

\* anomaly_threshold = 2.5
anomaly_threshold == Rat(25, 10)

\* Mutant: a ledger of exactly ten rows is turned away as well.
too_few_rows_le(frame) ==
    frame.isNone \/ frame.rows = <<>> \/ Len(frame.rows) <= min_transactions

\* df is None or df.empty or len(df) < 10
too_few_rows(frame) ==
    frame.isNone \/ frame.rows = <<>> \/ Len(frame.rows) < min_transactions

\* The square of np.abs((amount - mean) / std), mean and std over the whole
\* population; 0 / 0 is NaN (numpy warns and goes on).
z_score_squared(rows, i) ==
    LET k == Len(rows)
        sum == AmountSum(rows)
        dev == k * rows[i].Amount - sum
        var == k * SquareSum(rows) - sum * sum
    IN  IF var = 0 THEN NaN ELSE Rat(dev * dev, var)

\* Mutant: "not (z <= threshold)", which is True for NaN.
exceeds_threshold_not_le(zsq) ==
    ~(zsq # NaN /\ RLe(zsq, RMul(anomaly_threshold, anomaly_threshold)))

\* Mutant: z >= threshold.
exceeds_threshold_ge(zsq) ==
    zsq # NaN /\ RLe(RMul(anomaly_threshold, anomaly_threshold), zsq)

\* z > anomaly_threshold; a comparison with NaN is False
exceeds_threshold(zsq) ==
    zsq # NaN /\ RLt(RMul(anomaly_threshold, anomaly_threshold), zsq)

RECURSIVE flagged_rows(_, _)
flagged_rows(rows, i) ==
    IF i > Len(rows) THEN <<>>
    ELSE LET zsq == z_score_squared(rows, i)
             rest == flagged_rows(rows, i + 1)
         IN  IF exceeds_threshold(zsq)
             THEN <<[Date |-> rows[i].Date, Category |-> rows[i].Category,
                     Amount |-> rows[i].Amount, z_score |-> RSqrt(zsq)]>> \o rest
             ELSE rest

\* What the try block raises: the mean of a text column at line 150.
detect_spending_anomalies_raised(frame) ==
    IF too_few_rows(frame) THEN NoException ELSE arithmetic_raised(frame.rows)

detect_spending_anomalies(frame) ==
    IF too_few_rows(frame) \/ detect_spending_anomalies_raised(frame) # NoException
    THEN <<>>
    ELSE flagged_rows(frame.rows, 1)

(***************************************************************************)
(* Inputs of the budget monitor and the forecasting engine.                *)
(***************************************************************************)
D(y, m, d) == [year |-> y, month |-> m, day |-> d]

Dates == {D(2024, 12, 14), D(2025, 1, 6), D(2025, 12, 3)}

Nows == {D(2025, 1, 15), D(2025, 12, 1), D(2025, 12, 15), D(2025, 12, 30),
         D(2025, 12, 31)}

Amounts == {30, 60}

Budgets == {-100, 0, 50, 100}

Transactions ==
    {[Date |-> dt, Category |-> "Food", Amount |-> a] : dt \in Dates, a \in Amounts}

Ledgers(S, n) == UNION {[1..k -> S] : k \in 0..n}

Frames == {NoneDF} \cup {Frame(r) : r \in Ledgers(Transactions, MaxLen)}

(***************************************************************************)
(* A call of a core operation.  Before the first call nothing has been     *)
(* returned, nobody is logged in and the expense file is empty.            *)
(***************************************************************************)
Sessions == {"tab1", "tab2"}

DefaultBudget == 10000

\* st.session_state of a session nobody is logged in to
LoggedOut == [user |-> None, monthly_budget |-> RInt(DefaultBudget)]

\* users.db with the users table created and no row inserted yet
NoUsers == [rows |-> <<>>, seq |-> 0]

Idle ==
    /\ op = "init"
    /\ result = None
    /\ called_at = None
    /\ repeated = FALSE
    /\ csv_file = <<>>
    /\ session = [s \in Sessions |-> LoggedOut]
    /\ users_db = NoUsers
    /\ pending = [s \in Sessions |-> None]
    /\ saved = <<>>

\* A regressor that has not been fitted.
NoFit == [raw |-> [m \in 1..12 |-> Zero], std_error |-> Zero]

\* The operation returns value, unless its try block raised an exception that
\* its except clause does not catch.
Invoke(name, value, raised) ==
    LET escaped == raised # NoException /\ ~caught(raised)
    IN  /\ op' = IF escaped THEN "exception" ELSE name
        /\ result' = IF escaped THEN None ELSE value
        /\ called_at' = today
        /\ repeated' = (op = name)
        /\ UNCHANGED <<df, today, monthly_budget, fitted>>
        /\ UNCHANGED app_vars

(***************************************************************************)
(* The budget monitor applied to a ledger snapshot.                        *)
(***************************************************************************)
InitBudget ==
    /\ df \in Frames
    /\ today \in Nows
    /\ monthly_budget \in Budgets
    /\ fitted = NoFit
    /\ Idle

BudgetAlert ==
    /\ Invoke("budget_alert", budget_alert(df, monthly_budget, today),
            budget_alert_raised(df, today))

NextBudget == BudgetAlert

SpecBudget == InitBudget /\ [][NextBudget]_vars

(***************************************************************************)
(* Properties of the budget monitor.                                       *)
(***************************************************************************)
RECURSIVE SumOfAmounts(_, _)
SumOfAmounts(rows, I) ==
    IF I = {} THEN 0
    ELSE LET i == CHOOSE j \in I : TRUE
         IN  rows[i].Amount + SumOfAmounts(rows, I \ {i})

\* Indices of the rows dated in the month and year of "now".
CurrentIdx(rows, now) ==
    {i \in DOMAIN rows :
        rows[i].Date.month = now.month /\ rows[i].Date.year = now.year}

\* T of the claims: the sum of the current-month amounts.
T_now == SumOfAmounts(df.rows, CurrentIdx(df.rows, today))

RemoveAt(rows, i) == SubSeq(rows, 1, i - 1) \o SubSeq(rows, i + 1, Len(rows))

BudgetRan == op = "budget_alert"

\* C1: on a non-empty ledger the alert is the first rule that matches, in the
\* order exceeded (T > B), projected to exceed ((T / d) * 30 > B), high usage
\* (100*T/B > 80), on track (100*T/B > 50), excellent; a later rule is never
\* reported when an earlier rule's condition holds.
C1_FirstMatchWins ==
    (BudgetRan /\ ~IsNoneOrEmpty(df)) =>
        LET T == T_now
            B == monthly_budget
            d == today.day
        IN  result.alert =
              IF T > B THEN "BUDGET EXCEEDED"
              ELSE IF 30 * T > B * d THEN "Projected to exceed budget"
              ELSE IF B > 0 /\ 100 * T > 80 * B THEN "budget used"
              ELSE IF B > 0 /\ 100 * T > 50 * B THEN "budget used - On track"
              ELSE "budget used - Excellent"

\* C1 witness: rule 2 is reported although rule 3's condition holds as well.
C1_Witness ==
    /\ BudgetRan /\ ~IsNoneOrEmpty(df)
    /\ monthly_budget > 0
    /\ 100 * T_now > 80 * monthly_budget
    /\ T_now <= monthly_budget
    /\ result.alert = "Projected to exceed budget"

\* C2 as stated: every ledger snapshot (the empty one included) whose
\* current-month transactions sum to 0 gives, for a budget > 0, percentage 0
\* and the excellent classification.
C2_ZeroTotalExcellent_AnyLedger ==
    (BudgetRan /\ monthly_budget > 0 /\ T_now = 0) =>
        /\ result.percentage = Zero
        /\ result.alert = "budget used - Excellent"

\* C2 amended: every NON-EMPTY ledger snapshot whose current-month
\* transactions sum to 0 gives, for a budget > 0, percentage 0 and the
\* excellent classification.
C2_ZeroTotalExcellent ==
    (BudgetRan /\ ~IsNoneOrEmpty(df) /\ monthly_budget > 0 /\ T_now = 0) =>
        /\ result.percentage = Zero
        /\ result.alert = "budget used - Excellent"

\* C2 witness: a ledger with entries, none of them in the current month.
C2_Witness ==
    /\ BudgetRan /\ Len(df.rows) >= 2
    /\ monthly_budget > 0
    /\ CurrentIdx(df.rows, today) = {}
    /\ result.alert = "budget used - Excellent"

C4_Percentage ==
    BudgetRan =>
        /\ monthly_budget > 0 =>
              result.percentage.n * monthly_budget = 100 * T_now * result.percentage.d
        /\ monthly_budget <= 0 => result.percentage = Zero
        /\ result.alert # "Alert unavailable"

\* C4 witness: a zero budget with money spent this month.
C4_Witness ==
    /\ BudgetRan /\ monthly_budget = 0 /\ T_now > 0
    /\ result.percentage = Zero

(***************************************************************************)
(* The forecasting engine applied to a ledger snapshot.                    *)
(***************************************************************************)
RawPredictions == {Rat(-450, 1), Zero, Rat(6, 1000), Rat(505, 1)}

StdErrors == {Zero, RInt(100)}

\* The regressor is fitted on the ledger alone (random_state=42): what it
\* predicts depends on the month number of the future row, the residual
\* deviation does not.
ForecastFits ==
    {[raw |-> [m \in 1..12 |-> r], std_error |-> se] :
        r \in RawPredictions, se \in StdErrors}

InitForecast ==
    /\ df \in Frames
    /\ today \in Nows
    /\ monthly_budget = DefaultBudget
    /\ fitted \in ForecastFits
    /\ Idle

MonthlyForecast ==
    /\ Invoke("monthly_forecast",
            monthly_forecast(df, today, fitted.raw[today.month], fitted.std_error),
            monthly_forecast_raised(df))

NextForecast == MonthlyForecast

SpecForecast == InitForecast /\ [][NextForecast]_vars

(***************************************************************************)
(* Properties of the forecasting engine.                                   *)
(***************************************************************************)
ForecastRan == op = "monthly_forecast"

\* The distinct (year, month) pairs of the ledger.
LedgerMonths == {<<df.rows[i].Date.year, df.rows[i].Date.month>> : i \in DOMAIN df.rows}

MonthIdx(ym) ==
    {i \in DOMAIN df.rows : df.rows[i].Date.year = ym[1] /\ df.rows[i].Date.month = ym[2]}

RECURSIVE FieldSum(_, _)
FieldSum(table, field) ==
    IF table = <<>> THEN 0 ELSE Head(table)[field] + FieldSum(Tail(table), field)

\* C5: an empty or absent ledger gives (None, None, None); a ledger whose
\* transactions all fall in one calendar month gives the aggregate table (its
\* single row) with a null prediction and a null confidence interval.
C5_NoOrOneMonth ==
    ForecastRan =>
        /\ IsNoneOrEmpty(df) =>
              /\ result.monthly = None
              /\ result.prediction = None
              /\ result.confidence_interval = None
        /\ (~IsNoneOrEmpty(df) /\ Cardinality(LedgerMonths) = 1) =>
              /\ result.monthly # None
              /\ Len(result.monthly[1]) = 1
              /\ result.monthly[1][1].Total = SumOfAmounts(df.rows, DOMAIN df.rows)
              /\ result.monthly[1][1].Count = Len(df.rows)
              /\ result.prediction = None
              /\ result.confidence_interval = None

\* C5 witness: several transactions of one month, table returned, no prediction.
C5_Witness ==
    /\ ForecastRan /\ ~df.isNone
    /\ Len(df.rows) >= 2
    /\ Cardinality(LedgerMonths) = 1
    /\ result.monthly # None
    /\ result.prediction = None

\* C6: a returned prediction is >= 0 and so is the lower bound of the
\* returned confidence interval, whatever the fitted model produced.
C6_NonNegative ==
    (ForecastRan /\ result.prediction # None) =>
        /\ RLe(Zero, result.prediction[1])
        /\ RLe(Zero, result.confidence_interval[1][1])

\* C6 witness: the model extrapolated so far below zero that even the upper
\* bound of the interval is negative; the prediction returned is 0.
C6_Witness ==
    /\ ForecastRan /\ result.prediction # None
    /\ RLt(result.confidence_interval[1][2], Zero)
    /\ result.prediction[1] = Zero

C8_FutureRow ==
    (ForecastRan /\ result.future_features # None) =>
        LET row == result.future_features[1]
            table == result.monthly[1]
            col(field) == [i \in DOMAIN table |-> table[i][field]]
        IN  /\ row.Index = Cardinality(LedgerMonths)
            /\ row.Count = Rat(FieldSum(table, "Count"), Len(table))
            /\ row.Mean = column_mean(col("Mean"))
            /\ row.Std = column_mean(col("Std"))
            /\ row.Month_Num = (today.month % 12) + 1

\* C9: the aggregate table has one row per distinct (year, month), in
\* ascending period order whatever the insertion order; each row holds the sum
\* and the number of its month's transactions (the totals add up to the ledger
\* total, the counts to its length); the std of a one-transaction month is 0.
C9_AggregateTable ==
    (ForecastRan /\ result.monthly # None) =>
        LET table == result.monthly[1]
        IN  /\ Len(table) = Cardinality(LedgerMonths)
            /\ \A i \in DOMAIN table :
                  LET ym == <<table[i].Month.year, table[i].Month.month>>
                  IN  /\ ym \in LedgerMonths
                      /\ table[i].Total = SumOfAmounts(df.rows, MonthIdx(ym))
                      /\ table[i].Count = Cardinality(MonthIdx(ym))
                      /\ table[i].Std # NaN
                      /\ table[i].Count = 1 => table[i].Std = Zero
            /\ \A i, j \in DOMAIN table :
                  i < j => \/ table[i].Month.year < table[j].Month.year
                           \/ /\ table[i].Month.year = table[j].Month.year
                              /\ table[i].Month.month < table[j].Month.month
            /\ FieldSum(table, "Total") = SumOfAmounts(df.rows, DOMAIN df.rows)
            /\ FieldSum(table, "Count") = Len(df.rows)

\* C9 witness: the later month was entered first, and one month holds a single
\* transaction while the other holds two of different amounts.
C9_Witness ==
    /\ ForecastRan /\ result.monthly # None
    /\ Len(df.rows) = 3
    /\ PeriodOrdinal(to_period_M(df.rows[1].Date)) > PeriodOrdinal(to_period_M(df.rows[3].Date))
    /\ Len(result.monthly[1]) = 2
    /\ \E i \in 1..2 : result.monthly[1][i].Count = 1 /\ result.monthly[1][i].Std = Zero
    /\ \E i \in 1..2 : result.monthly[1][i].Count = 2 /\ RLt(Zero, result.monthly[1][i].Std)

(***************************************************************************)
(* The anomaly detector applied to a ledger snapshot.                      *)
(***************************************************************************)
AnomalyAmounts == {10, 50}

AnomalyTransactions ==
    {[Date |-> D(2025, 12, 3), Category |-> "Food", Amount |-> a] : a \in AnomalyAmounts}

\* Ledgers with two outliers: every amount is 20 but a 10 and a 30.
SpreadLen == 14

AnomalyRow(a) == [Date |-> D(2025, 12, 3), Category |-> "Food", Amount |-> a]

SpreadLedgers ==
    {[k \in 1..SpreadLen |-> AnomalyRow(IF k = i THEN 10 ELSE IF k = j THEN 30 ELSE 20)] :
        i \in 1..SpreadLen, j \in 1..SpreadLen}

\* Ledgers whose largest amount lies exactly 2.5 standard deviations above the
\* mean (mean 10, standard deviation 2), in every rotation.
BoundaryAmounts == <<9, 9, 9, 9, 8, 8, 11, 11, 11, 15>>

BoundaryLedgers ==
    {[k \in 1..Len(BoundaryAmounts) |->
         AnomalyRow(BoundaryAmounts[((k + r) % Len(BoundaryAmounts)) + 1])] :
        r \in 1..Len(BoundaryAmounts)}

AnomalyFrames ==
    {NoneDF} \cup {Frame(r) : r \in Ledgers(AnomalyTransactions, MaxRows)}
             \cup {Frame(r) : r \in SpreadLedgers \cup BoundaryLedgers}

InitAnomaly ==
    /\ df \in AnomalyFrames
    /\ today = D(2025, 12, 15)
    /\ monthly_budget = DefaultBudget
    /\ fitted = NoFit
    /\ Idle

DetectAnomalies ==
    /\ Invoke("detect_spending_anomalies", detect_spending_anomalies(df),
            detect_spending_anomalies_raised(df))

NextAnomaly == DetectAnomalies

SpecAnomaly == InitAnomaly /\ [][NextAnomaly]_vars

(***************************************************************************)
(* Properties of the anomaly detector.                                     *)
(***************************************************************************)
DetectRan == op = "detect_spending_anomalies"

\* Row i lies more than 2.5 population standard deviations from the mean:
\* |k*a - S| / sqrt(k*Q - S*S) > 5/2, with S the sum and Q the sum of squares.
IsOutlier(i) ==
    LET k == Len(df.rows)
        S == SumOfAmounts(df.rows, DOMAIN df.rows)
        Q == SumOfAmounts([j \in DOMAIN df.rows |->
                              [Amount |-> df.rows[j].Amount * df.rows[j].Amount]],
                          DOMAIN df.rows)
    IN  /\ k * Q - S * S > 0
        /\ 4 * (k * df.rows[i].Amount - S) * (k * df.rows[i].Amount - S)
              > 25 * (k * Q - S * S)

\* C10: a ledger of fewer than 10 transactions gives the empty list whatever
\* its amounts; a ledger of exactly 10 transactions is evaluated: it gives a
\* non-empty list exactly when it holds an outlier.
C10_MinimumTen ==
    DetectRan =>
        /\ Len(df.rows) < 10 => result = <<>>
        /\ Len(df.rows) = 10 =>
              (result # <<>> <=> \E i \in DOMAIN df.rows : IsOutlier(i))

\* C10 witness: ten transactions, one of them flagged.
C10_Witness ==
    /\ DetectRan
    /\ Len(df.rows) = 10
    /\ Len(result) = 1
    /\ result[1].Amount = 50

AllIdentical == \A i, j \in DOMAIN df.rows : df.rows[i].Amount = df.rows[j].Amount

\* C11: ten or more transactions of one and the same amount (zero standard
\* deviation) give the empty list; the undefined z-score flags nothing.
C11_ZeroDeviation ==
    (DetectRan /\ Len(df.rows) >= 10 /\ AllIdentical) => result = <<>>

\* C11 witness: ten or more identical amounts went through the z-score test.
C11_Witness ==
    /\ DetectRan
    /\ Len(df.rows) >= 10
    /\ AllIdentical
    /\ z_score_squared(df.rows, 1) = NaN
    /\ result = <<>>

\* The square of the z-score of row i, from the sum and the sum of squares.
ZSquared(i) ==
    LET k == Len(df.rows)
        S == SumOfAmounts(df.rows, DOMAIN df.rows)
        Q == SumOfAmounts([j \in DOMAIN df.rows |->
                              [Amount |-> df.rows[j].Amount * df.rows[j].Amount]],
                          DOMAIN df.rows)
    IN  Rat((k * df.rows[i].Amount - S) * (k * df.rows[i].Amount - S), k * Q - S * S)

RECURSIVE OutliersFrom(_)
OutliersFrom(i) ==
    IF i > Len(df.rows) THEN <<>>
    ELSE (IF IsOutlier(i) THEN <<i>> ELSE <<>>) \o OutliersFrom(i + 1)

\* C12: with ten or more transactions and a non-zero spread the result holds
\* exactly the transactions with |amount - mean| / std > 2.5 (population mean
\* and deviation), in ledger order, each with its z-score (here to 1/100); a
\* z-score of exactly 2.5 is not flagged.
C12_ExactlyTheOutliers ==
    (DetectRan /\ Len(df.rows) >= 10 /\ ~AllIdentical) =>
        LET idx == OutliersFrom(1)
        IN  /\ Len(result) = Len(idx)
            /\ \A k \in DOMAIN idx :
                  LET row == df.rows[idx[k]]
                      z == result[k].z_score
                      step == Rat(1, SqrtScale)
                  IN  /\ result[k].Date = row.Date
                      /\ result[k].Category = row.Category
                      /\ result[k].Amount = row.Amount
                      /\ RLe(RMul(z, z), ZSquared(idx[k]))
                      /\ RLt(ZSquared(idx[k]), RMul(RAdd(z, step), RAdd(z, step)))

\* C12 witness: a transaction exactly 2.5 deviations from the mean, not flagged.
C12_Witness ==
    /\ DetectRan
    /\ Len(df.rows) >= 10
    /\ ~AllIdentical
    /\ \E i \in DOMAIN df.rows : ZSquared(i) = Rat(25, 4)
    /\ result = <<>>

\* Two outliers are returned in ledger order whichever is the larger amount.
C12_OrderReached ==
    /\ DetectRan
    /\ Len(result) = 2
    /\ result[1].Amount > result[2].Amount

(***************************************************************************)
(* recommend_category_budgets and calculate_savings_potential              *)
(***************************************************************************)
\* A dict is a function on its keys; {} is the function on no key.
EmptyDict == <<>>

\* round(x, 1): to the nearest tenth, ties to the even digit
round1(x) ==
    LET num == x.n * 10
        q == num \div x.d
        r2 == 2 * (num % x.d)
        k == IF r2 > x.d \/ (r2 = x.d /\ q % 2 = 1) THEN q + 1 ELSE q
    IN  Rat(k, 10)

\* The keys of df.groupby('Category')
group_keys(rows) == {rows[i].Category : i \in DOMAIN rows}

\* Mutant: only the transactions of the current month are counted.
category_totals_this_month(rows) ==
    [c \in group_keys(current_month_rows(rows, today)) |->
        RInt(AmountSum(SelectSeq(current_month_rows(rows, today),
                                 LAMBDA r : r.Category = c)))]

\* df.groupby('Category')['Amount'].sum()
category_totals(rows) ==
    [c \in group_keys(rows) |->
        RInt(AmountSum(SelectSeq(rows, LAMBDA r : r.Category = c)))]

RECURSIVE DictSum(_, _)
DictSum(dict, keys) ==
    IF keys = {} THEN Zero
    ELSE LET k == CHOOSE c \in keys : TRUE
         IN  RAdd(dict[k], DictSum(dict, keys \ {k}))

\* Mutant: the zero-total guard never fires.
zero_total_never(total_spending) == FALSE

\* if total_spending == 0
zero_total(total_spending) == total_spending = Zero

\* Mutant: the historical amount itself is recommended.
recommended_budget_unscaled(amount, total_spending, total_budget) == round2(amount)

\* round(amount / total_spending * total_budget, 2); a float64 division of
\* zero by zero is nan, not an exception, and round(nan, 2) is nan
recommended_budget(amount, total_spending, total_budget) ==
    IF total_spending = Zero THEN NaN
    ELSE round2(RMul(RDiv(amount, total_spending), RInt(total_budget)))

\* What the try block raises: the division of text totals at line 229.
recommend_category_budgets_raised(frame) ==
    IF IsNoneOrEmpty(frame) THEN NoException ELSE arithmetic_raised(frame.rows)

recommend_category_budgets(frame, total_budget) ==
    IF IsNoneOrEmpty(frame) \/ recommend_category_budgets_raised(frame) # NoException
    THEN EmptyDict
    ELSE LET totals == category_totals(frame.rows)
             total_spending == DictSum(totals, DOMAIN totals)
         IN  IF zero_total(total_spending) THEN EmptyDict
             ELSE [c \in DOMAIN totals |->
                      recommended_budget(totals[c], total_spending, total_budget)]

high_share == RInt(30)

reduction == Rat(15, 100)

\* (amount / total_spending) * 100
share_percentage(amount, total_spending) ==
    RMul(RDiv(amount, total_spending), RInt(100))

\* Mutant: percentage >= 30.
high_spending_ge(percentage) == RLe(high_share, percentage)

\* if percentage > 30
high_spending(percentage) == RLt(high_share, percentage)

\* potential_savings = amount * 0.15
potential_savings(amount) == RMul(amount, reduction)

\* What the try block raises: the sum of text totals at line 305.
calculate_savings_potential_raised(frame) ==
    IF IsNoneOrEmpty(frame) THEN NoException ELSE arithmetic_raised(frame.rows)

calculate_savings_potential(frame, budget) ==
    IF IsNoneOrEmpty(frame) \/ calculate_savings_potential_raised(frame) # NoException
    THEN EmptyDict
    ELSE LET category_spending == category_totals(frame.rows)
             total_spending == DictSum(category_spending, DOMAIN category_spending)
         IN  IF zero_total(total_spending) THEN EmptyDict
             \* a division of Python floats by zero raises; caught by the except
             ELSE IF total_spending = Zero THEN EmptyDict
             ELSE LET high == {c \in DOMAIN category_spending :
                                 high_spending(share_percentage(category_spending[c],
                                                                total_spending))}
                  IN  [c \in high |->
                          [current |-> round2(category_spending[c]),
                           percentage |-> round1(share_percentage(category_spending[c],
                                                                  total_spending)),
                           potential_savings |->
                               round2(potential_savings(category_spending[c])),
                           suggestion |->
                               "High spending detected. Consider reducing by 15%"]]

(***************************************************************************)
(* The recommenders applied to a ledger snapshot with several categories.  *)
(***************************************************************************)
Categories == {"Food", "Travel", "Bills"}

CategoryAmounts == {0, 30, 70}

CategoryTransactions ==
    {[Date |-> D(2025, 12, 3), Category |-> c, Amount |-> a] :
        c \in Categories, a \in CategoryAmounts}

CategoryFrames == {NoneDF} \cup {Frame(r) : r \in Ledgers(CategoryTransactions, MaxLen)}

TotalBudgets == {-100, 0, 100, 1000}

InitRecommend ==
    /\ df \in CategoryFrames
    /\ today = D(2025, 12, 15)
    /\ monthly_budget \in TotalBudgets
    /\ fitted = NoFit
    /\ Idle

RecommendBudgets ==
    /\ Invoke("recommend_category_budgets",
            recommend_category_budgets(df, monthly_budget),
            recommend_category_budgets_raised(df))

SavingsPotential ==
    /\ Invoke("calculate_savings_potential",
            calculate_savings_potential(df, monthly_budget),
            calculate_savings_potential_raised(df))

NextRecommend == RecommendBudgets \/ SavingsPotential

SpecRecommend == InitRecommend /\ [][NextRecommend]_vars

RecommendRan == op = "recommend_category_budgets"

SavingsRan == op = "calculate_savings_potential"

LedgerCategories == {df.rows[i].Category : i \in DOMAIN df.rows}

\* Total amount of the transactions of category c.
CategorySpend(c) ==
    SumOfAmounts(df.rows, {i \in DOMAIN df.rows : df.rows[i].Category = c})

TotalSpend == SumOfAmounts(df.rows, DOMAIN df.rows)

\* |sum of the recommended amounts - totalBudget| <= half a cent per entry
WithinRounding ==
    LET sum == DictSum(result, DOMAIN result)
        diff == RSub(sum, RInt(monthly_budget))
        tolerance == Rat(5 * Cardinality(DOMAIN result), 1000)
    IN  RLe(diff, tolerance) /\ RLe(RSub(Zero, diff), tolerance)

\* C13 as stated, for any ledger: refuted by the empty result of an empty
\* ledger or a zero total, which sums to 0 whatever the budget.
C13_SumsToBudget_AnyLedger ==
    RecommendRan => (WithinRounding /\ DOMAIN result \subseteq LedgerCategories)

\* C13: for a ledger with a non-zero total spend the recommended amounts are
\* share * totalBudget rounded to 2 decimals, one per category of the ledger,
\* and sum to totalBudget within rounding; no other category appears.
C13_SumsToBudget ==
    (RecommendRan /\ ~df.isNone /\ TotalSpend # 0) =>
        /\ DOMAIN result = LedgerCategories
        /\ \A c \in DOMAIN result :
              result[c] = round2(Rat(CategorySpend(c) * monthly_budget, TotalSpend))
        /\ WithinRounding

\* C13 witness: three equal categories share a budget of 100 as 33.33 each.
C13_Witness ==
    /\ RecommendRan
    /\ monthly_budget = 100
    /\ LedgerCategories = Categories
    /\ \A c \in Categories : CategorySpend(c) = 30
    /\ \A c \in Categories : result[c] = Rat(3333, 100)

\* The scenario of the claim: shares of 30% and 70% of a budget of 1000.
C13_Scenario ==
    /\ RecommendRan
    /\ monthly_budget = 1000
    /\ result = ("Food" :> RInt(300)) @@ ("Travel" :> RInt(700))

\* C14: an empty (or absent) ledger and a ledger whose total spend is zero
\* give the empty mapping, and no returned amount comes from a division by a
\* zero total.
C14_EmptyOrZeroTotal ==
    RecommendRan =>
        /\ (df.isNone \/ df.rows = <<>> \/ TotalSpend = 0) => result = EmptyDict
        /\ \A c \in DOMAIN result : result[c] # NaN /\ TotalSpend # 0

\* C14 witness: a non-empty ledger whose amounts are all zero.
C14_Witness ==
    /\ RecommendRan
    /\ ~df.isNone
    /\ df.rows # <<>>
    /\ TotalSpend = 0
    /\ result = EmptyDict

days_from_epoch(date) ==
    LET y == IF date.month <= 2 THEN date.year - 1 ELSE date.year
        era == y \div 400
        yoe == y - era * 400
        mp == IF date.month > 2 THEN date.month - 3 ELSE date.month + 9
        doy == (153 * mp + 2) \div 5 + date.day - 1
        doe == yoe * 365 + yoe \div 4 - yoe \div 100 + doy
    IN  era * 146097 + doe - 719468

\* Series.dt.dayofweek: Monday is 0, Sunday is 6 (1970-01-01 was a Thursday)
dayofweek(date) == (days_from_epoch(date) + 3) % 7

\* Series.dt.day_name()
day_name(date) ==
    <<"Monday", "Tuesday", "Wednesday", "Thursday", "Friday", "Saturday",
      "Sunday">>[dayofweek(date) + 1]

\* Mutant: only Sunday counts as the weekend.
is_weekend_sunday_only(date) == dayofweek(date) >= 6

\* df_copy['IsWeekend'] = df_copy['Date'].dt.dayofweek >= 5
is_weekend(date) == dayofweek(date) >= 5

\* Series.mean(): nan for an empty selection
series_mean(rows) ==
    IF rows = <<>> THEN NaN ELSE Rat(AmountSum(rows), Len(rows))

\* round(x, 2) if not np.isnan(x) else 0
rounded_or_zero(x) == IF x = NaN THEN Zero ELSE round2(x)

\* What the try block raises: the date conversion at line 180, else the
\* mean of a text column at line 185.
analyze_spending_patterns_raised(frame) ==
    IF IsNoneOrEmpty(frame) THEN NoException
    ELSE first_raised(to_datetime_raised(frame.rows), arithmetic_raised(frame.rows))

\* The sort by date at line 181 changes no aggregate and is left out.
analyze_spending_patterns(frame) ==
    IF IsNoneOrEmpty(frame) \/ analyze_spending_patterns_raised(frame) # NoException
    THEN EmptyDict
    ELSE LET rows == frame.rows
             days == {day_name(rows[i].Date) : i \in DOMAIN rows}
             of_day(dn) == SelectSeq(rows, LAMBDA r : day_name(r.Date) = dn)
             of_category(c) == SelectSeq(rows, LAMBDA r : r.Category = c)
             weekend_avg == series_mean(SelectSeq(rows, LAMBDA r : is_weekend(r.Date)))
             weekday_avg == series_mean(SelectSeq(rows, LAMBDA r : ~is_weekend(r.Date)))
         IN  [day_spending |-> [dn \in days |-> series_mean(of_day(dn))],
              category_trends |->
                  [sum |-> [c \in group_keys(rows) |-> RInt(AmountSum(of_category(c)))],
                   mean |-> [c \in group_keys(rows) |-> series_mean(of_category(c))],
                   count |-> [c \in group_keys(rows) |-> Len(of_category(c))]],
              weekend_avg |-> rounded_or_zero(weekend_avg),
              weekday_avg |-> rounded_or_zero(weekday_avg)]

(***************************************************************************)
(* The pattern analysis applied to a ledger snapshot.                      *)
(***************************************************************************)
\* A Saturday, a Friday, a Sunday and a Monday.
PatternDates == {D(2024, 12, 14), D(2025, 12, 5), D(2025, 12, 7), D(2025, 1, 6)}

PatternAmounts == {10, 11}

PatternTransactions ==
    {[Date |-> dt, Category |-> c, Amount |-> a] :
        dt \in PatternDates, c \in {"Food", "Travel"}, a \in PatternAmounts}

PatternFrames == {NoneDF} \cup {Frame(r) : r \in Ledgers(PatternTransactions, MaxLen)}

InitPattern ==
    /\ df \in PatternFrames
    /\ today = D(2025, 12, 15)
    /\ monthly_budget = DefaultBudget
    /\ fitted = NoFit
    /\ Idle

AnalyzePatterns ==
    /\ Invoke("analyze_spending_patterns", analyze_spending_patterns(df),
            analyze_spending_patterns_raised(df))

NextPattern == AnalyzePatterns

SpecPattern == InitPattern /\ [][NextPattern]_vars

PatternRan == op = "analyze_spending_patterns"

\* The Saturdays and Sundays among PatternDates, by the calendar.
WeekendDates == {D(2024, 12, 14), D(2025, 12, 7)}

\* Mean amount, to 2 decimals, of the rows with index in I; 0 if there is none.
MeanOrZero(I) ==
    IF I = {} THEN Zero ELSE round2(Rat(SumOfAmounts(df.rows, I), Cardinality(I)))

WeekendIdx == {i \in DOMAIN df.rows : df.rows[i].Date \in WeekendDates}

\* C16: weekend_avg is the mean amount of the transactions dated Saturday or
\* Sunday and weekday_avg the mean of all others (to 2 decimals); with no
\* such transaction the mean is returned as 0, never as not-a-number.
C16_WeekendWeekdayMeans ==
    (PatternRan /\ ~df.isNone /\ df.rows # <<>>) =>
        /\ result.weekend_avg = MeanOrZero(WeekendIdx)
        /\ result.weekday_avg = MeanOrZero(DOMAIN df.rows \ WeekendIdx)
        /\ result.weekend_avg # NaN
        /\ result.weekday_avg # NaN

\* C16 witness: Friday and Monday transactions only; the weekend mean is 0 and
\* the weekday mean is rounded (31 / 3 = 10.33).
C16_Witness ==
    /\ PatternRan
    /\ Len(df.rows) = 3
    /\ WeekendIdx = {}
    /\ \E i \in DOMAIN df.rows : df.rows[i].Date = D(2025, 12, 5)
    /\ result.weekend_avg = Zero
    /\ result.weekday_avg = Rat(1033, 100)

\* A Saturday and a Sunday transaction only: the weekday mean is 0.
C16_WeekendOnly ==
    /\ PatternRan
    /\ df.rows # <<>>
    /\ WeekendIdx = DOMAIN df.rows
    /\ {df.rows[i].Date : i \in DOMAIN df.rows} = WeekendDates
    /\ result.weekday_avg = Zero

(***************************************************************************)
(* The whole core on one ledger snapshot: any operation may be called, any *)
(* number of times, while the wall clock advances.  The ledger may hold    *)
(* malformed records.                                                      *)
(***************************************************************************)
CoreLen == 3

CoreTransactions ==
    {[Date |-> D(2025, 12, 3), Category |-> "Food", Amount |-> 30],
     [Date |-> D(2025, 1, 6), Category |-> "Travel", Amount |-> 60],
     [Date |-> BadDate, Category |-> "Food", Amount |-> 60],
     [Date |-> D(2025, 12, 3), Category |-> "Food", Amount |-> 0,
      AmountText |-> "sixty"]}

\* Nine amounts of 10 and one of 50; the same with the date of the 50 not
\* parseable; the same with the first amount given as text.
TenRowLedgers ==
    LET plain == [k \in 1..min_transactions |->
                     AnomalyRow(IF k = min_transactions THEN 50 ELSE 10)]
    IN  {plain,
         [plain EXCEPT ![min_transactions].Date = BadDate],
         [k \in 1..min_transactions |->
             IF k = 1 THEN [Date |-> D(2025, 12, 3), Category |-> "Food",
                            Amount |-> 0, AmountText |-> "ten"]
             ELSE plain[k]]}

CoreFrames ==
    {NoneDF} \cup {Frame(r) : r \in Ledgers(CoreTransactions, CoreLen) \cup TenRowLedgers}

CoreNows == {D(2025, 1, 15), D(2025, 12, 15), D(2025, 12, 30)}

Later(a, b) ==
    \/ a.year > b.year
    \/ a.year = b.year /\ a.month > b.month
    \/ a.year = b.year /\ a.month = b.month /\ a.day > b.day

\* One regressor whose prediction changes with the month of the future row
\* and one whose prediction does not.
CoreFits ==
    {[raw |-> [m \in 1..12 |-> IF m = 12 THEN r ELSE RInt(505)],
      std_error |-> RInt(100)] : r \in {Rat(-450, 1), RInt(505)}}

InitCore ==
    /\ df \in CoreFrames
    /\ today = D(2025, 1, 15)
    /\ monthly_budget = 100
    /\ fitted \in CoreFits
    /\ Idle

\* Time passes between two calls.
Tick ==
    /\ \E now \in CoreNows : Later(now, today) /\ today' = now
    /\ UNCHANGED <<df, monthly_budget, fitted, op, result, called_at, repeated>>
    /\ UNCHANGED app_vars

NextCore ==
    \/ BudgetAlert
    \/ MonthlyForecast
    \/ DetectAnomalies
    \/ AnalyzePatterns
    \/ RecommendBudgets
    \/ SavingsPotential
    \/ Tick

SpecCore == InitCore /\ [][NextCore]_vars

(***************************************************************************)
(* Properties of the whole core.                                           *)
(***************************************************************************)
\* The operations that never read the wall clock.
ClockFree ==
    {"detect_spending_anomalies", "analyze_spending_patterns",
     "recommend_category_budgets", "calculate_savings_potential"}

C17_ClockRead ==
    /\ repeated
    /\ op = "budget_alert"
    /\ called_at.month = 12
    /\ result.percentage = RInt(30)

HasBadDate == \E i \in DOMAIN df.rows : df.rows[i].Date = BadDate

HasTextAmount == \E i \in DOMAIN df.rows : "AmountText" \in DOMAIN df.rows[i]

\* The amount column is text and the month of the last call has transactions.
TextAmountThisMonth ==
    /\ HasTextAmount
    /\ \E i \in DOMAIN df.rows :
          /\ df.rows[i].Date.month = called_at.month
          /\ df.rows[i].Date.year = called_at.year

\* C18: no operation lets an exception out; a ledger on which date parsing or
\* the arithmetic fails gives the documented fallback: (none, none, none) for
\* monthly_forecast, a message with percentage 0 for budget_alert, the empty
\* list for detect_spending_anomalies, the empty mapping for the others.
C18_NoPropagation ==
    /\ op # "exception"
    /\ (op = "budget_alert" /\ (HasBadDate \/ TextAmountThisMonth)) =>
          result = [alert |-> "Alert unavailable", percentage |-> Zero]
    /\ (op = "monthly_forecast" /\ (HasBadDate \/ HasTextAmount)) =>
          /\ result.monthly = None
          /\ result.prediction = None
          /\ result.confidence_interval = None
    /\ (op = "detect_spending_anomalies" /\ HasTextAmount) => result = <<>>
    /\ (op = "analyze_spending_patterns" /\ (HasBadDate \/ HasTextAmount)) =>
          result = EmptyDict
    /\ (op \in {"recommend_category_budgets", "calculate_savings_potential"}
           /\ HasTextAmount) => result = EmptyDict

\* C18 witness: the aggregation of a text column failed inside monthly_forecast
\* on a ledger that has two months of well-formed transactions.
C18_Witness ==
    /\ op = "monthly_forecast"
    /\ HasTextAmount
    /\ ~HasBadDate
    /\ \E i, j \in DOMAIN df.rows : df.rows[i].Date.month # df.rows[j].Date.month
    /\ result.monthly = None

WellFormed ==
    SelectSeq(df.rows, LAMBDA r : r.Date # BadDate /\ "AmountText" \notin DOMAIN r)

\* C19: on a ledger with a malformed record among well-formed ones,
\* budget_alert and monthly_forecast return what the well-formed records
\* alone would give.
C19_LocalRecovery ==
    ((HasBadDate \/ HasTextAmount) /\ WellFormed # <<>>) =>
        /\ op = "budget_alert" =>
              result = budget_alert(Frame(WellFormed), monthly_budget, called_at)
        /\ op = "monthly_forecast" =>
              result = monthly_forecast(Frame(WellFormed), called_at,
                                        fitted.raw[called_at.month], fitted.std_error)

(***************************************************************************)
(* Text.  A text is the sequence of its characters, so that strip() and    *)
(* lower() can be computed.                                                *)
(***************************************************************************)
Uppercase ==
    <<"A", "B", "C", "D", "E", "F", "G", "H", "I", "J", "K", "L", "M",
      "N", "O", "P", "Q", "R", "S", "T", "U", "V", "W", "X", "Y", "Z">>

Lowercase ==
    <<"a", "b", "c", "d", "e", "f", "g", "h", "i", "j", "k", "l", "m",
      "n", "o", "p", "q", "r", "s", "t", "u", "v", "w", "x", "y", "z">>

lower_char(c) ==
    IF \E i \in DOMAIN Uppercase : Uppercase[i] = c
    THEN Lowercase[CHOOSE i \in DOMAIN Uppercase : Uppercase[i] = c]
    ELSE c

\* str.lower()
lower(text) == [i \in DOMAIN text |-> lower_char(text[i])]

Whitespace == {" "}

RECURSIVE lstrip(_)
lstrip(text) ==
    IF text # <<>> /\ Head(text) \in Whitespace THEN lstrip(Tail(text)) ELSE text

RECURSIVE rstrip(_)
rstrip(text) ==
    IF text # <<>> /\ text[Len(text)] \in Whitespace
    THEN rstrip(SubSeq(text, 1, Len(text) - 1))
    ELSE text

\* str.strip()
strip(text) == rstrip(lstrip(text))

(***************************************************************************)
(* The expense store (src/utils.py).  expenses.csv is a sequence of lines, *)
(* the first of which read_csv takes as the header; no line, no file.  A   *)
(* stored row also records who saved it (field by), which the file does    *)
(* not hold: it is history, read by the properties only.                   *)
(***************************************************************************)
MaxStored == 2

HeaderLine == [columns |-> <<"Date", "Category", "Amount", "Note">>]

\* date.strftime('%Y-%m-%d'): the text is the triple of its three numbers
strftime(date) == <<date.year, date.month, date.day>>

\* pd.to_datetime on such a text
to_datetime(text) == D(text[1], text[2], text[3])

\* Some of the texts pd.read_csv takes for a missing value (its default
\* na_values): the empty text, NA, nan.
na_values == {<<>>, <<"N", "A">>, <<"n", "a", "n">>}

\* pd.read_csv on a text cell: the text, or a missing value (NaN)
read_csv_text(cell) == IF cell \in na_values THEN None ELSE Some(cell)

\* if not os.path.exists(CSV_FILE): write the header
initialize_csv(file) == IF file = <<>> THEN <<HeaderLine>> ELSE file

\* The dictionary new_expense.
new_expense(date, category, amount, note) ==
    [Date |-> strftime(date), Category |-> category, Amount |-> round2(amount),
     Note |-> strip(note)]

\* new_df.to_csv(CSV_FILE, mode='a', header=False): one more line
save_expense(file, expense) == Append(file, expense)

\* pd.read_csv(CSV_FILE), then the Date column converted
load_expenses(file) ==
    IF file = <<>> THEN Frame(<<>>)
    ELSE LET lines == Tail(file)
         IN  Frame([i \in DOMAIN lines |->
                       [lines[i] EXCEPT !.Date = to_datetime(lines[i].Date),
                                        !.Note = read_csv_text(lines[i].Note)]])

(***************************************************************************)
(* The user store (src/auth.py).  users.db holds the rows of the users     *)
(* table in insertion order and the last id AUTOINCREMENT handed out.      *)
(* A password is a string; its SHA-256 digest is taken to be injective.    *)
(***************************************************************************)
\* hashlib.sha256(password.encode()).hexdigest()
hash_pass(password) == <<"sha256", password>>

\* float(monthly_budget): the REAL that is stored
to_real(budget) == RInt(budget)

\* The rows selected by WHERE LOWER(username)=?
matching(db, username) ==
    {i \in DOMAIN db.rows : lower(db.rows[i].username) = username}

\* Mutant: the table is created without UNIQUE on username.
unique_violated_never(db, username) == FALSE

\* username TEXT UNIQUE NOT NULL: whether an INSERT of the name is refused
unique_violated(db, username) ==
    \E i \in DOMAIN db.rows : db.rows[i].username = username

\* INSERT INTO users(username, password, monthly_budget) VALUES(?, ?, ?)
insert_user(db, username, hashed_pw, budget) ==
    [rows |-> Append(db.rows, [id |-> db.seq + 1, username |-> username,
                               password |-> hashed_pw,
                               monthly_budget |-> to_real(budget)]),
     seq |-> db.seq + 1]

\* Mutant: a username of any length is accepted.
too_short_never(username) == FALSE

\* len(username) < 3
too_short(username) == Len(username) < 3

\* register_user up to its SELECT: the reason to refuse, or "insert"
register_check(db, username, password) ==
    IF username = <<>> \/ password = "" THEN "Empty username or password"
    ELSE IF too_short(lower(strip(username))) THEN "Username too short"
    ELSE IF matching(db, lower(strip(username))) # {} THEN "already exists"
    ELSE "insert"

\* Mutant: the password is not compared.
password_matches_always(row, password) == TRUE

\* AND password=?
password_matches(row, password) == row.password = hash_pass(password)

\* login_user: the first selected row as (id, username, monthly_budget), or None
login_user(db, username, password) ==
    IF username = <<>> \/ password = "" THEN None
    ELSE LET found == {i \in matching(db, lower(strip(username))) :
                          password_matches(db.rows[i], password)}
         IN  IF found = {} THEN None
             ELSE LET row == db.rows[CHOOSE i \in found : \A j \in found : i <= j]
                  IN  Some(<<row.id, row.username, row.monthly_budget>>)

\* get_user_budget
get_user_budget(db, username) ==
    IF username = <<>> THEN to_real(DefaultBudget)
    ELSE LET found == matching(db, lower(strip(username)))
         IN  IF found = {} THEN to_real(DefaultBudget)
             ELSE db.rows[CHOOSE i \in found : \A j \in found : i <= j].monthly_budget

\* Mutant: UPDATE users SET monthly_budget=? without the WHERE clause.
updated_rows_all(db, username) == DOMAIN db.rows

\* The rows UPDATE ... WHERE LOWER(username)=? changes
updated_rows(db, username) == matching(db, username)

\* update_user_budget: the store afterwards and the value returned
update_user_budget(db, username, new_budget) ==
    IF username = <<>> THEN [db |-> db, returned |-> FALSE]
    ELSE LET name == lower(strip(username))
             after == [db EXCEPT !.rows =
                          [i \in DOMAIN db.rows |->
                              IF i \in updated_rows(db, name)
                              THEN [db.rows[i] EXCEPT !.monthly_budget =
                                                          to_real(new_budget)]
                              ELSE db.rows[i]]]
         IN  [db |-> after, returned |-> matching(after, name) # {}]

\* delete_user: the store afterwards and the value returned (rowcount > 0)
delete_user(db, username) ==
    IF username = <<>> THEN [db |-> db, returned |-> FALSE]
    ELSE LET name == lower(strip(username))
         IN  [db |-> [db EXCEPT !.rows =
                         SelectSeq(db.rows, LAMBDA row : lower(row.username) # name)],
              returned |-> matching(db, name) # {}]

\* reset_database: DELETE FROM users
reset_database(db) == [db EXCEPT !.rows = <<>>]


(***************************************************************************)
(* The sessions of the app (src/app.py).                                   *)
(***************************************************************************)
Asha == <<"a", "s", "h", "a">>

Ravi == <<"r", "a", "v", "i">>

\* Amounts typed into the form: 30 and 12.345.
StoreAmounts == {RInt(30), Rat(12345, 1000)}

\* Notes typed into the form: none, " t " and "NA".
StoreNotes == {<<>>, <<" ", "t", " ">>, <<"N", "A">>}

\* Both users have registered, with password "pw1" and the default budget.
TwoAccounts ==
    insert_user(insert_user(NoUsers, Asha, hash_pass("pw1"), DefaultBudget),
                Ravi, hash_pass("pw1"), DefaultBudget)

\* The login form, shown while nobody is logged in to the session.
Login(s, username, password) ==
    /\ session[s].user = None
    /\ pending[s] = None
    /\ username # <<>>
    /\ password # ""
    /\ LET user == login_user(users_db, username, password)
       IN  /\ op' = "login_user"
           /\ result' = [username |-> username, password |-> password,
                         returned |-> user]
           /\ session' =
                  IF user = None THEN session
                  ELSE [session EXCEPT ![s] = [user |-> Some(user[1][2]),
                                               monthly_budget |-> user[1][3]]]
    /\ UNCHANGED <<df, csv_file, users_db, pending, saved>>
    /\ UNCHANGED core_vars

\* The logout button of the sidebar.
Logout(s) ==
    /\ session[s].user # None
    /\ pending[s] = None
    /\ session' = [session EXCEPT ![s] = LoggedOut]
    /\ op' = "logout"
    /\ result' = None
    /\ UNCHANGED <<df, csv_file, users_db, pending, saved>>
    /\ UNCHANGED core_vars

\* The Add Expense page of a logged-in session: the file is initialised, the
\* expense appended and the ledger loaded again.
AddExpense(s, amount, note) ==
    /\ session[s].user # None
    /\ pending[s] = None
    /\ Len(csv_file) <= MaxStored
    /\ Len(saved) < MaxStored
    /\    LET expense == new_expense(D(2025, 12, 3), "Food", amount, note)
              entry == [expense EXCEPT !.Date = D(2025, 12, 3)] @@
                       [by |-> session[s].user[1]]
          IN  /\ csv_file' = save_expense(initialize_csv(csv_file),
                                          expense @@ [by |-> session[s].user[1]])
              /\ saved' = Append(saved, entry)
    /\ df' = load_expenses(csv_file')
    /\ op' = "save_expense"
    /\ result' = [user |-> session[s].user[1], returned |-> TRUE]
    /\ UNCHANGED <<session, users_db, pending>>
    /\ UNCHANGED core_vars

\* A page of a logged-in session that loads the ledger.
LoadExpenses(s) ==
    /\ session[s].user # None
    /\ pending[s] = None
    /\ csv_file' = initialize_csv(csv_file)
    /\ df' = load_expenses(csv_file')
    /\ op' = "load_expenses"
    /\ result' = [user |-> session[s].user[1], returned |-> df']
    /\ UNCHANGED <<session, users_db, pending, saved>>
    /\ UNCHANGED core_vars

(***************************************************************************)
(* The expense store used by the sessions of two registered users.         *)
(***************************************************************************)
InitStore ==
    /\ df = Frame(<<>>)
    /\ today = D(2025, 12, 15)
    /\ monthly_budget = DefaultBudget
    /\ fitted = NoFit
    /\ op = "init"
    /\ result = None
    /\ called_at = None
    /\ repeated = FALSE
    /\ csv_file = <<>>
    /\ session = [s \in Sessions |-> LoggedOut]
    /\ users_db = TwoAccounts
    /\ pending = [s \in Sessions |-> None]
    /\ saved = <<>>

NextStore ==
    \E s \in Sessions :
        \/ \E u \in {Asha, Ravi} : Login(s, u, "pw1")
        \/ Logout(s)
        \/ \E amount \in StoreAmounts, note \in StoreNotes : AddExpense(s, amount, note)
        \/ LoadExpenses(s)

SpecStore == InitStore /\ [][NextStore]_vars

\* C20: the ledger loaded for a user holds only transactions this user saved.
C20_OwnLedgerOnly ==
    op = "load_expenses" =>
        \A i \in DOMAIN result.returned.rows :
            result.returned.rows[i].by = result.user

\* The transactions saved so far, as a ledger: each note is present.
SavedLedger == [i \in DOMAIN saved |-> [saved[i] EXCEPT !.Note = Some(@)]]

\* C21: after any sequence of successful saves load_expenses returns exactly
\* the saved transactions, once each, in the order they were saved.
C21_AppendOnly ==
    op = "load_expenses" => result.returned.rows = SavedLedger

\* What does hold: the loaded ledger is the saved one apart from the notes.
C21_ApartFromNotes ==
    op = "load_expenses" =>
        /\ Len(result.returned.rows) = Len(saved)
        /\ \A i \in DOMAIN saved :
              /\ result.returned.rows[i].Date = saved[i].Date
              /\ result.returned.rows[i].Category = saved[i].Category
              /\ result.returned.rows[i].Amount = saved[i].Amount
              /\ result.returned.rows[i].Note \in {None, Some(saved[i].Note)}

(***************************************************************************)
(* The user store used by the sessions.  register_user reads the table and *)
(* then writes it, in two statements between which another session may     *)
(* act; the other operations are one statement, or an UPDATE followed by a *)
(* SELECT, taken as one step.                                              *)
(***************************************************************************)
MaxAccounts == 2

\* " Asha": the name of Asha in another case and with a leading blank
AshaVariant == <<" ", "A", "s", "h", "a">>

TypedNames == {<<>>, <<"a", "b">>, Asha, AshaVariant, Ravi}

\* Passwords typed into the register form and into the login form.
RegisterPasswords == {"", "pw1"}

LoginPasswords == {"pw1", "pw2"}

RegisterBudget == 1000

NewBudgets == {2000}

\* register_user, up to and including its SELECT
RegisterCheck(s, username, password) ==
    /\ session[s].user = None
    /\ pending[s] = None
    /\ users_db.seq < MaxAccounts
    /\ LET outcome == register_check(users_db, username, password)
       IN  IF outcome = "insert"
           THEN /\ pending' = [pending EXCEPT ![s] =
                                  [op |-> "register_user",
                                   username |-> lower(strip(username)),
                                   typed |-> username,
                                   password |-> password]]
                /\ op' = "register_user: select"
                /\ result' = None
           ELSE /\ op' = "register_user"
                /\ result' = [username |-> username, password |-> password,
                              returned |-> FALSE, message |-> outcome]
                /\ UNCHANGED pending
    /\ UNCHANGED <<df, csv_file, session, users_db, saved>>
    /\ UNCHANGED core_vars

\* register_user, from its INSERT on
RegisterInsert(s) ==
    /\ pending[s] # None
    /\ pending[s].op = "register_user"
    /\ LET refused == unique_violated(users_db, pending[s].username)
       IN  /\ users_db' =
                  IF refused THEN users_db
                  ELSE insert_user(users_db, pending[s].username,
                                   hash_pass(pending[s].password), RegisterBudget)
           /\ result' = [username |-> pending[s].typed,
                         password |-> pending[s].password,
                         returned |-> ~refused,
                         message |-> IF refused THEN "Database Integrity Error"
                                     ELSE "registered successfully"]
    /\ op' = "register_user"
    /\ pending' = [pending EXCEPT ![s] = None]
    /\ UNCHANGED <<df, csv_file, session, saved>>
    /\ UNCHANGED core_vars

\* The debug panel of the login page: delete a user.
DeleteUser(s, username) ==
    /\ session[s].user = None
    /\ pending[s] = None
    /\ username # <<>>
    /\ users_db' = delete_user(users_db, username).db
    /\ op' = "delete_user"
    /\ result' = [username |-> username,
                  returned |-> delete_user(users_db, username).returned]
    /\ UNCHANGED <<df, csv_file, session, pending, saved>>
    /\ UNCHANGED core_vars

\* The debug panel of the login page: reset the database.
ResetDatabase(s) ==
    /\ session[s].user = None
    /\ pending[s] = None
    /\ users_db' = reset_database(users_db)
    /\ op' = "reset_database"
    /\ result' = [returned |-> TRUE]
    /\ UNCHANGED <<df, csv_file, session, pending, saved>>
    /\ UNCHANGED core_vars

\* The budget settings of the sidebar: update_user_budget for the user of the
\* session, then the rerun, which reads the budget back with get_user_budget.
UpdateBudget(s, new_budget) ==
    /\ session[s].user # None
    /\ pending[s] = None
    /\ LET username == session[s].user[1]
           update == update_user_budget(users_db, username, new_budget)
       IN  /\ users_db' = update.db
           /\ session' = IF update.returned
                         THEN [session EXCEPT ![s].monthly_budget = RInt(new_budget)]
                         ELSE session
           /\ op' = "update_user_budget"
           /\ result' = [username |-> username, new_budget |-> new_budget,
                         returned |-> update.returned,
                         current_budget |-> get_user_budget(update.db, username)]
    /\ UNCHANGED <<df, csv_file, pending, saved>>
    /\ UNCHANGED core_vars

InitAuth ==
    /\ df = Frame(<<>>)
    /\ today = D(2025, 12, 15)
    /\ monthly_budget = DefaultBudget
    /\ fitted = NoFit
    /\ Idle

NextAuth ==
    \E s \in Sessions :
        \/ \E u \in TypedNames, p \in RegisterPasswords : RegisterCheck(s, u, p)
        \/ RegisterInsert(s)
        \/ \E u \in TypedNames, p \in LoginPasswords : Login(s, u, p)
        \/ Logout(s)
        \/ \E b \in NewBudgets : UpdateBudget(s, b)
        \/ \E u \in TypedNames : DeleteUser(s, u)
        \/ ResetDatabase(s)

SpecAuth == InitAuth /\ [][NextAuth]_vars

(***************************************************************************)
(* Claims about the user store, checked under SpecAuth.                    *)
(***************************************************************************)

\* The rows of a store that hold the account of a stored username.
AccountsOf(db, username) ==
    {i \in DOMAIN db.rows : db.rows[i].username = username}

\* C22: update_user_budget(u, b) returns True exactly when an account for u
\* exists; then get_user_budget(u) returns b and every other account is left
\* as it was.  With no account for u it returns False, the store is left as
\* it was, and get_user_budget(u) returns the default 10000.
C22_BudgetRoundTrip ==
    [][op' = "update_user_budget" =>
          LET had == AccountsOf(users_db, result'.username)
          IN  /\ result'.returned = (had # {})
              /\ had # {} =>
                     /\ result'.current_budget = RInt(result'.new_budget)
                     /\ Len(users_db'.rows) = Len(users_db.rows)
                     /\ users_db'.seq = users_db.seq
                     /\ \A i \in DOMAIN users_db.rows :
                            IF i \in had
                            THEN users_db'.rows[i] =
                                     [users_db.rows[i] EXCEPT !.monthly_budget =
                                                      RInt(result'.new_budget)]
                            ELSE users_db'.rows[i] = users_db.rows[i]
              /\ had = {} =>
                     /\ users_db' = users_db
                     /\ result'.current_budget = RInt(10000)]_vars

\* An update succeeded while another account, with another budget, is stored.
C22_Witness ==
    /\ op = "update_user_budget"
    /\ result.returned
    /\ result.current_budget = RInt(2000)
    /\ \E i \in DOMAIN users_db.rows :
           /\ users_db.rows[i].username # result.username
           /\ users_db.rows[i].monthly_budget = RInt(RegisterBudget)

\* An update was tried for a session whose account is gone.
C22_NoAccountReached ==
    /\ op = "update_user_budget"
    /\ ~result.returned
    /\ result.current_budget = RInt(10000)

\* No two accounts have usernames equal after trimming and lower-casing.
NoDuplicates ==
    \A i, j \in DOMAIN users_db.rows :
        lower(strip(users_db.rows[i].username))
            = lower(strip(users_db.rows[j].username)) => i = j

\* The cases in which register_user has to refuse, in the store it meets.
MustRefuse(db, username, password) ==
    \/ username = <<>>
    \/ password = ""
    \/ Len(strip(username)) < 3
    \/ \E i \in DOMAIN db.rows :
           lower(strip(db.rows[i].username)) = lower(strip(username))

\* C23: under every interleaving of register_user, delete_user and
\* update_user_budget across sessions the store never holds two accounts
\* whose usernames are equal after trimming and lower-casing; register_user
\* returns False and leaves the store unchanged when such an account exists,
\* when the username or password is empty, or when the trimmed username has
\* fewer than 3 characters.
C23_NoDuplicateAccounts ==
    /\ []NoDuplicates
    /\ [][op' = "register_user"
             /\ MustRefuse(users_db, result'.username, result'.password)
           => result'.returned = FALSE /\ users_db' = users_db]_vars

\* Two sessions registered the same name at once: the second INSERT was
\* refused by the UNIQUE constraint.
C23_Witness ==
    /\ op = "register_user"
    /\ result.message = "Database Integrity Error"
    /\ Len(users_db.rows) = 1

\* C24: login_user(u, p) returns the tuple (id, username, monthly_budget) of
\* an account if and only if an account with username lower(strip(u)) exists
\* whose stored password hash is the hash of p, and None otherwise; so a case
\* or whitespace variant of a registered name logs in with the password it
\* was registered with.
C24_LoginIff ==
    op = "login_user" =>
        LET accounts ==
                {i \in AccountsOf(users_db, lower(strip(result.username))) :
                    users_db.rows[i].password = hash_pass(result.password)}
        IN  IF accounts = {} THEN result.returned = None
            ELSE \E i \in accounts :
                    result.returned = Some(<<users_db.rows[i].id,
                                             users_db.rows[i].username,
                                             users_db.rows[i].monthly_budget>>)

\* A variant of a registered name logged in, after the budget was updated.
C24_Witness ==
    /\ op = "login_user"
    /\ result.username = AshaVariant
    /\ result.returned # None
    /\ result.returned[1][2] = Asha
    /\ result.returned[1][3] = RInt(2000)

\* A login with a wrong password, or for no account, returned None.
C24_RefusedReached ==
    /\ op = "login_user"
    /\ result.returned = None
    /\ AccountsOf(users_db, lower(strip(result.username))) # {}

(***************************************************************************)
(* The prediction and its confidence interval.                             *)
(***************************************************************************)

\* C25: whenever monthly_forecast returns a prediction with a confidence
\* interval (lower, upper), lower <= prediction <= upper, for every value the
\* fitted model can produce, negative raw predictions included.
C25_WithinInterval ==
    (ForecastRan /\ result.prediction # None) =>
        /\ RLe(result.confidence_interval[1][1], result.prediction[1])
        /\ RLe(result.prediction[1], result.confidence_interval[1][2])

(***************************************************************************)
(* predict_budget_breach                                                   *)
(* The message is the record of its text up to the amount and the amount   *)
(* it shows.  The budget is a positive number: the operator is applied to  *)
(* positive budgets only.                                                  *)
(***************************************************************************)
RMin(a, b) == IF RLt(b, a) THEN b ELSE a

\* What the try block raises: the date conversion, else the division of the
\* sum of a text column.
predict_budget_breach_raised(frame, now) ==
    IF IsNoneOrEmpty(frame) THEN NoException
    ELSE first_raised(to_datetime_raised(frame.rows),
                      IF current_month_rows(frame.rows, now) = <<>> THEN NoException
                      ELSE arithmetic_raised(frame.rows))

\* Mutant: a projection equal to the budget counts as a breach.
breaches_ge(projected_total, budget) == RLe(RInt(budget), projected_total)

\* projected_total > monthly_budget
breaches(projected_total, budget) == RLt(RInt(budget), projected_total)

\* min(100, 50 + breach_percentage), before rounding
breach_probability(projected_total, budget) ==
    LET breach_percentage ==
            RMul(RDiv(RSub(projected_total, RInt(budget)), RInt(budget)), RInt(100))
    IN  RMin(RInt(100), RAdd(RInt(50), breach_percentage))

\* max(0, 50 - safety_margin), before rounding
safe_probability(projected_total, budget) ==
    LET safety_margin ==
            RMul(RDiv(RSub(RInt(budget), projected_total), RInt(budget)), RInt(100))
    IN  RMax(Zero, RSub(RInt(50), safety_margin))

predict_budget_breach(frame, budget, now) ==
    IF IsNoneOrEmpty(frame)
    THEN [probability |-> Zero,
          message |-> [text |-> "Insufficient data", projected |-> None]]
    ELSE IF predict_budget_breach_raised(frame, now) # NoException
    THEN [probability |-> Zero,
          message |-> [text |-> "Prediction unavailable", projected |-> None]]
    ELSE LET current_month_df == current_month_rows(frame.rows, now)
         IN  IF current_month_df = <<>>
             THEN [probability |-> Zero,
                   message |-> [text |-> "No spending data for current month",
                                projected |-> None]]
             ELSE LET current_total == AmountSum(current_month_df)
                      daily_rate == IF now.day > 0 THEN Rat(current_total, now.day)
                                    ELSE Zero
                      projected_total == RMul(daily_rate, RInt(days_in_month))
                  IN  IF breaches(projected_total, budget)
                      THEN [probability |->
                                round1(breach_probability(projected_total, budget)),
                            message |-> [text |-> "High risk",
                                         projected |-> Some(round2(projected_total))]]
                      ELSE [probability |->
                                round1(safe_probability(projected_total, budget)),
                            message |-> [text |-> "Low risk",
                                         projected |-> Some(round2(projected_total))]]

(***************************************************************************)
(* The budget monitor and the breach prediction on the same ledger, budget *)
(* and day.                                                                *)
(***************************************************************************)
BreachDates == {D(2025, 1, 6), D(2025, 12, 3)}

BreachAmounts == {4000, 6000, 10001}

BreachTransactions ==
    {[Date |-> dt, Category |-> "Food", Amount |-> a] :
        dt \in BreachDates, a \in BreachAmounts}

BreachFrames == {NoneDF} \cup {Frame(r) : r \in Ledgers(BreachTransactions, MaxLen)}

InitBreach ==
    /\ df \in BreachFrames
    /\ today \in Nows
    /\ monthly_budget = DefaultBudget
    /\ fitted = NoFit
    /\ Idle

PredictBudgetBreach ==
    /\ Invoke("predict_budget_breach",
            predict_budget_breach(df, monthly_budget, today),
            predict_budget_breach_raised(df, today))

NextBreach == BudgetAlert \/ PredictBudgetBreach

SpecBreach == InitBreach /\ [][NextBreach]_vars

BreachRan == op = "predict_budget_breach"

\* The amount spent in the month of the call and its projection to day 30.
SpentThisMonth == SumOfAmounts(df.rows, {i \in DOMAIN df.rows :
                                           /\ df.rows[i].Date.month = today.month
                                           /\ df.rows[i].Date.year = today.year})

ProjectedTotal == Rat(SpentThisMonth * 30, today.day)

\* C26: on the same ledger, budget > 0 and day of month, whenever
\* budget_alert reports 'exceeded' or 'projected to exceed',
\* predict_budget_breach reports 'High risk' with a probability above 50;
\* equivalently the projected month-end total is never below the amount
\* already spent this month.
C26_AlertImpliesHighRisk ==
    BreachRan =>
        /\ budget_alert(df, monthly_budget, today).alert
               \in {"BUDGET EXCEEDED", "Projected to exceed budget"}
           => /\ result.message.text = "High risk"
              /\ RLt(RInt(50), result.probability)
        /\ RLe(RInt(SpentThisMonth), ProjectedTotal)

\* The ledger is empty or has no transaction in the month of the call.
NothingThisMonth ==
    IsNoneOrEmpty(df) \/ current_month_rows(df.rows, today) = <<>>

NoDataMessages == {"Insufficient data", "No spending data for current month"}

\* The share of the budget by which the projection exceeds it, in percent.
ExcessPercent ==
    RDiv(RMul(RSub(ProjectedTotal, RInt(monthly_budget)), RInt(100)),
         RInt(monthly_budget))

\* C27 as stated: the probability is in [0, 100]; it is strictly above 50 with
\* the message 'High risk' if and only if the projected total is strictly
\* greater than the budget, exactly 50 when they are equal, and 0 with a 'no
\* data' message when there is nothing in the current month.
C27_StrictlyAbove50 ==
    BreachRan =>
        /\ RLe(Zero, result.probability) /\ RLe(result.probability, RInt(100))
        /\ NothingThisMonth =>
               /\ result.probability = Zero
               /\ result.message.text \in NoDataMessages
        /\ ~NothingThisMonth =>
               /\ (RLt(RInt(50), result.probability)
                      /\ result.message.text = "High risk")
                  <=> RLt(RInt(monthly_budget), ProjectedTotal)
               /\ ProjectedTotal = RInt(monthly_budget)
                      => result.probability = RInt(50)

\* C27, amended: the probability is in [0, 100]; the message is 'High risk'
\* if and only if the projected total is strictly greater than the budget;
\* the probability, rounded to one decimal, is then at least 50, and strictly
\* above 50 once the projection exceeds the budget by 0.1 percent of it; with
\* 'Low risk' it is at most 50, and exactly 50 when the projection equals the
\* budget; with nothing in the current month it is 0 with a 'no data' message.
C27_BreachProbability ==
    BreachRan =>
        /\ RLe(Zero, result.probability) /\ RLe(result.probability, RInt(100))
        /\ NothingThisMonth =>
               /\ result.probability = Zero
               /\ result.message.text \in NoDataMessages
        /\ ~NothingThisMonth =>
               /\ result.message.text = "High risk"
                     <=> RLt(RInt(monthly_budget), ProjectedTotal)
               /\ result.message.text = "Low risk"
                     <=> RLe(ProjectedTotal, RInt(monthly_budget))
               /\ result.message.text = "High risk"
                     => RLe(RInt(50), result.probability)
               /\ result.message.text = "Low risk"
                     => RLe(result.probability, RInt(50))
               /\ RLe(Rat(1, 10), ExcessPercent)
                     => RLt(RInt(50), result.probability)
               /\ ProjectedTotal = RInt(monthly_budget)
                     => result.probability = RInt(50)

\* A projection just above the budget: 'High risk' at a probability that
\* rounds to exactly 50.
C27_Witness ==
    /\ BreachRan
    /\ result.message.text = "High risk"
    /\ result.probability = RInt(50)

\* The projection equals the budget: 'Low risk' at exactly 50.
C27_EqualReached ==
    /\ BreachRan
    /\ ~NothingThisMonth
    /\ ProjectedTotal = RInt(monthly_budget)
    /\ result.message.text = "Low risk"

\* The probability is capped at 100.
C27_CappedReached ==
    /\ BreachRan
    /\ result.probability = RInt(100)

(***************************************************************************)
(* delete_expense_by_index (src/utils.py).  It loads the ledger and then   *)
(* writes the whole file again: two steps, between which another session   *)
(* may save an expense.                                                    *)
(***************************************************************************)
\* df.empty or index >= len(df)
delete_refused(frame, index) ==
    frame.rows = <<>> \/ index >= Len(frame.rows)

\* df.drop(index) looks the index up as a row label: a label that no row has
\* raises KeyError.
drop_raised(frame, index) ==
    IF index + 1 \in DOMAIN frame.rows THEN NoException ELSE "KeyError"

\* Mutant: the row after the given one is dropped.
drop_next(frame, index) ==
    Frame([k \in 1..(Len(frame.rows) - 1) |->
              IF k < index + 2 /\ index + 2 <= Len(frame.rows)
              THEN frame.rows[k] ELSE frame.rows[k + 1]])

\* df.drop(index)
drop(frame, index) ==
    Frame([k \in 1..(Len(frame.rows) - 1) |->
              IF k < index + 1 THEN frame.rows[k] ELSE frame.rows[k + 1]])

\* A row as to_csv writes it: the date as text, a missing note as the empty
\* text.
to_csv_line(row) ==
    [row EXCEPT !.Date = strftime(row.Date),
                !.Note = IF row.Note = None THEN <<>> ELSE row.Note[1]]

\* df.to_csv(CSV_FILE, index=False): the header and one line per row
to_csv(frame) ==
    <<HeaderLine>> \o [k \in DOMAIN frame.rows |-> to_csv_line(frame.rows[k])]

\* Whether a loaded row is the saved expense.
same_expense(entry, row) ==
    /\ row.Date = entry.Date
    /\ row.Category = entry.Category
    /\ row.Amount = entry.Amount
    /\ row.by = entry.by
    /\ row.Note = read_csv_text(entry.Note)

\* The saved expenses without the first one that is the row deleted.
without_target(entries, row) ==
    LET hits == {k \in DOMAIN entries : same_expense(entries[k], row)}
    IN  IF hits = {} THEN entries
        ELSE LET first == CHOOSE k \in hits : \A j \in hits : k <= j
             IN  [k \in 1..(Len(entries) - 1) |->
                     IF k < first THEN entries[k] ELSE entries[k + 1]]

\* Indices passed to delete_expense_by_index.
DeleteIndices == -1 .. MaxStored

\* The amount and the notes typed while expenses are being deleted.
DeleteAmounts == {RInt(30)}

DeleteNotes == {<<>>, <<"t">>}

\* delete_expense_by_index up to its test of the index
DeleteLoad(s, index) ==
    /\ session[s].user # None
    /\ pending[s] = None
    /\ LET loaded == load_expenses(csv_file)
       IN  IF delete_refused(loaded, index)
           THEN /\ op' = "delete_expense_by_index"
                /\ result' = [index |-> index, returned |-> FALSE]
                /\ UNCHANGED pending
           ELSE /\ op' = "delete_expense_by_index: load"
                /\ result' = None
                /\ pending' = [pending EXCEPT ![s] =
                                  [op |-> "delete_expense_by_index",
                                   index |-> index, loaded |-> loaded]]
    /\ UNCHANGED <<df, csv_file, session, users_db, saved>>
    /\ UNCHANGED core_vars

\* delete_expense_by_index from df.drop on
DeleteRewrite(s) ==
    /\ pending[s] # None
    /\ pending[s].op = "delete_expense_by_index"
    /\ LET index == pending[s].index
           loaded == pending[s].loaded
           raised == drop_raised(loaded, index)
       IN  /\ csv_file' = IF raised # NoException THEN csv_file
                          ELSE to_csv(drop(loaded, index))
           /\ saved' = IF raised # NoException THEN saved
                       ELSE without_target(saved, loaded.rows[index + 1])
           /\ result' = [index |-> index, returned |-> (raised = NoException)]
    /\ op' = "delete_expense_by_index"
    /\ pending' = [pending EXCEPT ![s] = None]
    /\ UNCHANGED <<df, session, users_db>>
    /\ UNCHANGED core_vars

\* Asha is logged in to one session and Ravi to the other.
BothLoggedIn ==
    [s \in Sessions |->
        [user |-> Some(IF s = "tab1" THEN Asha ELSE Ravi),
         monthly_budget |-> RInt(DefaultBudget)]]

InitDelete ==
    /\ df = Frame(<<>>)
    /\ today = D(2025, 12, 15)
    /\ monthly_budget = DefaultBudget
    /\ fitted = NoFit
    /\ op = "init"
    /\ result = None
    /\ called_at = None
    /\ repeated = FALSE
    /\ csv_file = <<>>
    /\ session = BothLoggedIn
    /\ users_db = TwoAccounts
    /\ pending = [s \in Sessions |-> None]
    /\ saved = <<>>

\* Both sessions save expenses; the session of Asha deletes.
NextDelete ==
    \/ \E s \in Sessions, amount \in DeleteAmounts, note \in DeleteNotes :
           AddExpense(s, amount, note)
    \/ \E index \in DeleteIndices : DeleteLoad("tab1", index)
    \/ DeleteRewrite("tab1")

SpecDelete == InitDelete /\ [][NextDelete]_vars

\* No expense was saved between the load and the rewrite of the delete that
\* this step completes.
Undisturbed ==
    \A s \in Sessions :
        \/ pending[s] = None
        \/ pending'[s] # None
        \/ pending[s].loaded = load_expenses(csv_file)

\* C28: delete_expense_by_index(i) on a stored ledger of n records returns
\* False and leaves the stored ledger unchanged when the ledger is empty,
\* i >= n or i < 0; for 0 <= i < n it returns True and the stored ledger is
\* afterwards the previous one without its i-th record, the other records
\* kept in their order.
C28_DeleteByIndex ==
    [][(op' = "delete_expense_by_index" /\ Undisturbed) =>
          LET i == result'.index
              before == load_expenses(csv_file).rows
              after == load_expenses(csv_file').rows
              n == Len(before)
          IN  IF n = 0 \/ i >= n \/ i < 0
              THEN result'.returned = FALSE /\ csv_file' = csv_file
              ELSE /\ result'.returned = TRUE
                   /\ Len(after) = n - 1
                   /\ \A k \in 1..(n - 1) :
                          after[k] = before[IF k < i + 1 THEN k ELSE k + 1]]_vars

\* The first of two stored records was deleted and the second one is kept.
C28_Witness ==
    /\ op = "delete_expense_by_index"
    /\ result.returned
    /\ result.index = 0
    /\ Len(saved) = 1
    /\ Len(load_expenses(csv_file).rows) = 1
    /\ same_expense(saved[1], load_expenses(csv_file).rows[1])
    /\ saved[1].by = Ravi

\* A negative index was refused on a ledger that holds records.
C28_NegativeReached ==
    /\ op = "delete_expense_by_index"
    /\ result.index < 0
    /\ ~result.returned
    /\ Len(csv_file) > 1

\* C29: under every interleaving of a delete_expense_by_index with saves from
\* another session, every expense whose save returned True and that was not
\* the one deleted is present in a subsequent load_expenses.
C29_NoSavedExpenseLost ==
    LET rows == load_expenses(csv_file).rows
    IN  \A k \in DOMAIN saved :
            Cardinality({j \in DOMAIN saved : saved[j] = saved[k]})
                <= Cardinality({j \in DOMAIN rows : same_expense(saved[k], rows[j])})

(***************************************************************************)
(* Sessions and accounts.                                                  *)
(***************************************************************************)

\* C30: in every reachable state a session that is logged in refers to an
\* account that exists in the user store; the authenticated pages run only
\* for such a session, and logout resets the session to user None and budget
\* 10000.
C30_LoggedInHasAccount ==
    \A s \in Sessions :
        session[s].user # None => AccountsOf(users_db, session[s].user[1]) # {}

\* What does hold: a logout leaves its session with no user and budget 10000.
C30_LogoutResets ==
    [][op' = "logout" =>
          \E s \in Sessions :
              /\ session[s].user # None
              /\ session'[s] = [user |-> None, monthly_budget |-> RInt(10000)]]_vars

====
